---- MODULE Spec2Model ----
(***************************************************************************)
(* State-machine model of riot_auth/auth.py: the RiotAuth session object,  *)
(* its token merge (__update / __get_keys_from_access_token /              *)
(* __set_tokens_from_uri) and the authorize() / reauthorize() coroutines,  *)
(* cut into one step per network round trip.                               *)
(*                                                                         *)
(* Python values are records [t |-> type name, v |-> payload]; strings     *)
(* are TLA+ strings, so the characters of a string that the code takes     *)
(* apart (split(".")) are given by the table Symbols.                      *)
(***************************************************************************)
EXTENDS Integers, Sequences, FiniteSets, TLC

\* ------------------------------------------------------------------ bounds
\* number of distinct cookies the provider can set
MaxCookies == 1
\* number of distinct values the provider can use for an entitlements token
\* and, in the redirects of MergeSpec, for a URI key
MaxStamp == 2

\* ------------------------------------------------------------ Python values
None == [t |-> "NoneType", v |-> "None"]
PyStr(s) == [t |-> "str", v |-> s]
PyInt(n) == [t |-> "int", v |-> n]
\* the dict built at the end of a successful run (written to accountData.json)
AccDict == [t |-> "dict", v |-> "accdict"]
\* the objects held by the two private attributes
SslCtx == [t |-> "SSLContext", v |-> "riot_auth_ssl_ctx"]
JarRef == [t |-> "CookieJar", v |-> "cookie_jar"]

\* str(x) as used by the f-string of the Authorization header
Format(x) == IF x.t = "NoneType" THEN "None" ELSE x.v

\* bool(s) of a Python string
Truthy(s) == s # ""

\* marker for a key that a JSON object or a keyword binding does not have
Absent == "<absent>"

\* ------------------------------------------------------------ the instance
\* the seven session fields of the data model
SessionFields ==
    {"access_token", "scope", "id_token", "token_type", "expires_at",
     "user_id", "entitlements_token"}

\* the attributes __init__ creates
InitAttrs ==
    [k \in {"_auth_ssl_ctx", "_cookie_jar", "accdict"} \cup SessionFields |->
        CASE k = "_auth_ssl_ctx" -> SslCtx
          [] k = "_cookie_jar" -> JarRef
          [] k = "expires_at" -> PyInt(0)
          [] OTHER -> None]

\* key[0] != "_" over the attribute names and URI keys of the model
StartsWithUnderscore(key) == key \in {"_auth_ssl_ctx", "_cookie_jar"}

\* predefined_keys of __update
PredefinedKeys(d) == {key \in DOMAIN d : ~StartsWithUnderscore(key)}

\* ------------------------------------------------------------ TLS profile
\* ":".join(names)
RECURSIVE Join(_)
Join(names) ==
    IF names = <<>> THEN ""
    ELSE IF Len(names) = 1 THEN names[1]
    ELSE names[1] \o ":" \o Join(Tail(names))

CIPHERS13 ==
    Join(<<"TLS_CHACHA20_POLY1305_SHA256", "TLS_AES_128_GCM_SHA256",
           "TLS_AES_256_GCM_SHA384">>)

CIPHERS ==
    Join(<<"ECDHE-ECDSA-CHACHA20-POLY1305", "ECDHE-RSA-CHACHA20-POLY1305",
           "ECDHE-ECDSA-AES128-GCM-SHA256", "ECDHE-RSA-AES128-GCM-SHA256",
           "ECDHE-ECDSA-AES256-GCM-SHA384", "ECDHE-RSA-AES256-GCM-SHA384",
           "ECDHE-ECDSA-AES128-SHA", "ECDHE-RSA-AES128-SHA",
           "ECDHE-ECDSA-AES256-SHA", "ECDHE-RSA-AES256-SHA",
           "AES128-GCM-SHA256", "AES256-GCM-SHA384", "AES128-SHA", "AES256-SHA",
           "DES-CBC3-SHA">>)

\* SIGALGS without its last entry, the one that is never negotiated
SIGALGS_NoSha1 ==
    Join(<<"ecdsa_secp256r1_sha256", "rsa_pss_rsae_sha256", "rsa_pkcs1_sha256",
           "ecdsa_secp384r1_sha384", "rsa_pss_rsae_sha384", "rsa_pkcs1_sha384",
           "rsa_pss_rsae_sha512", "rsa_pkcs1_sha512">>)

SIGALGS ==
    Join(<<"ecdsa_secp256r1_sha256", "rsa_pss_rsae_sha256", "rsa_pkcs1_sha256",
           "ecdsa_secp384r1_sha384", "rsa_pss_rsae_sha384", "rsa_pkcs1_sha384",
           "rsa_pss_rsae_sha512", "rsa_pkcs1_sha512", "rsa_pkcs1_sha1">>)

\* the values of sys.platform the model draws from
SupportedPlatforms == {"win32", "linux", "darwin"}
Platforms == SupportedPlatforms \cup {"freebsd13"}

\* the option flags of the context ssl.create_default_context() returns
DefaultOptions ==
    {"OP_ALL", "OP_NO_SSLv2", "OP_NO_SSLv3", "OP_NO_COMPRESSION",
     "OP_CIPHER_SERVER_PREFERENCE", "OP_SINGLE_DH_USE", "OP_SINGLE_ECDH_USE"}
\* 1 << 19
SSL_OP_NO_ENCRYPT_THEN_MAC == "bit 19"

\* create_riot_auth_ssl_ctx() on a platform: the settings of the context it
\* returns and the library whose functions set the three lists, or the
\* exception it raises.  loadable tells whether ctypes.CDLL finds the
\* library of the platform's branch.
create_riot_auth_ssl_ctx(platform, loadable) ==
    LET libssl == IF platform = "win32" THEN "libssl-1_1.dll"
                  ELSE "ssl._ssl.__file__"
    IN  IF platform \notin {"win32", "linux", "darwin"}
        THEN [exc |-> "NotImplementedError", ctx |-> <<>>]
        ELSE IF ~loadable
        THEN [exc |-> "OSError", ctx |-> <<>>]
        ELSE [exc |-> "",
              ctx |-> [libssl |-> libssl,
                       minimum_version |-> "TLSv1",
                       alpn_protocols |-> <<"http/1.1">>,
                       options |-> DefaultOptions \cup {SSL_OP_NO_ENCRYPT_THEN_MAC},
                       ciphersuites |-> CIPHERS13,
                       cipher_list |-> CIPHERS,
                       sigalgs |-> SIGALGS]]

\* ------------------------------------------------------------ URI parsing
\* parse_qsl: the (key, value) pairs of a query string, in order, without
\* the pairs whose value is blank (keep_blank_values is False)
RECURSIVE parse_qsl(_)
parse_qsl(qs) ==
    IF qs = <<>> THEN <<>>
    ELSE IF Head(qs)[2] = "" THEN parse_qsl(Tail(qs))
         ELSE <<Head(qs)>> \o parse_qsl(Tail(qs))

\* dict(pairs): a later pair replaces an earlier one with the same key
RECURSIVE DictOf(_)
DictOf(pairs) ==
    IF pairs = <<>> THEN <<>>
    ELSE LET rest == DictOf(SubSeq(pairs, 1, Len(pairs) - 1))
             last == pairs[Len(pairs)]
         IN [k \in DOMAIN rest \cup {last[1]} |->
                IF k = last[1] THEN PyStr(last[2]) ELSE rest[k]]

\* DictUpdate that fills only attributes that are still None
DictUpdate_KeepSet(d, src, allowed) ==
    [k \in DOMAIN d \cup (DOMAIN src \cap allowed) |->
        IF k \in DOMAIN src \cap allowed /\ (k \notin DOMAIN d \/ d[k] = None)
        THEN src[k] ELSE d[k]]

\* dict.update(d, (k, v) for k, v in src if k in allowed)
DictUpdate(d, src, allowed) ==
    [k \in DOMAIN d \cup (DOMAIN src \cap allowed) |->
        IF k \in DOMAIN src \cap allowed THEN src[k] ELSE d[k]]

\* ----------------------------------------------------------- access tokens
\* the characters of the strings the model uses, "." kept apart
Symbols(s) ==
    CASE s = "h.eyJzdWIiOiJ1MSIsImV4cCI6MTAwfQ.s" ->
            <<"h", ".", "eyJzdWIiOiJ1MSIsImV4cCI6MTAwfQ", ".", "s">>
      [] s = "h.eyJzdWIiOiJ1MiIsImV4cCI6MjAwfQ.s" ->
            <<"h", ".", "eyJzdWIiOiJ1MiIsImV4cCI6MjAwfQ", ".", "s">>
      [] s = "h.eyJpc3MiOiJ4In0.s" -> <<"h", ".", "eyJpc3MiOiJ4In0", ".", "s">>
      [] s = "h.eyJzdWIiOiJ1MSIsImV4cCI6MTAwfQ" ->
            <<"h", ".", "eyJzdWIiOiJ1MSIsImV4cCI6MTAwfQ">>
      [] s = "h.A.s" -> <<"h", ".", "A", ".", "s">>
      [] s = "h.bm90anNvbg.s" -> <<"h", ".", "bm90anNvbg", ".", "s">>
      [] s = "h.WzFd.s" -> <<"h", ".", "WzFd", ".", "s">>
      [] OTHER -> <<s>>

\* str.split("."): the pieces between the dots
RECURSIVE SplitFrom(_, _)
SplitFrom(syms, cur) ==
    IF syms = <<>> THEN <<cur>>
    ELSE IF Head(syms) = "." THEN <<cur>> \o SplitFrom(Tail(syms), "")
         ELSE SplitFrom(Tail(syms), Head(syms))
SplitDot(s) == SplitFrom(Symbols(s), "")

\* urlsafe_b64decode(payload + "==="): the decoded bytes, or binascii.Error
urlsafe_b64decode(seg) ==
    CASE seg = "eyJzdWIiOiJ1MSIsImV4cCI6MTAwfQ" ->
            [exc |-> "", bytes |-> "{\"sub\":\"u1\",\"exp\":100}"]
      [] seg = "eyJzdWIiOiJ1MiIsImV4cCI6MjAwfQ" ->
            [exc |-> "", bytes |-> "{\"sub\":\"u2\",\"exp\":200}"]
      [] seg = "eyJpc3MiOiJ4In0" -> [exc |-> "", bytes |-> "{\"iss\":\"x\"}"]
      [] seg = "bm90anNvbg" -> [exc |-> "", bytes |-> "notjson"]
      [] seg = "WzFd" -> [exc |-> "", bytes |-> "[1]"]
      [] OTHER -> [exc |-> "binascii.Error", bytes |-> ""]

\* json.loads(decoded): the JSON value, or JSONDecodeError
json_loads(bytes) ==
    CASE bytes = "{\"sub\":\"u1\",\"exp\":100}" ->
            [exc |-> "", kind |-> "object",
             obj |-> [sub |-> PyStr("u1"), exp |-> PyInt(100)]]
      [] bytes = "{\"sub\":\"u2\",\"exp\":200}" ->
            [exc |-> "", kind |-> "object",
             obj |-> [sub |-> PyStr("u2"), exp |-> PyInt(200)]]
      [] bytes = "{\"iss\":\"x\"}" ->
            [exc |-> "", kind |-> "object", obj |-> [iss |-> PyStr("x")]]
      [] bytes = "[1]" -> [exc |-> "", kind |-> "array", obj |-> <<>>]
      [] OTHER -> [exc |-> "JSONDecodeError", kind |-> "", obj |-> <<>>]

\* dict.get(key): None for a missing key
DictGet(obj, key) == IF key \in DOMAIN obj THEN obj[key] ELSE None

\* key_attr_pairs without the ("exp", "expires_at") pair
DefaultKeyAttrPairs_OnlySub ==
    [is_str |-> FALSE, pairs |-> <<<<"sub", "user_id">>>>]

\* the default key_attr_pairs of __update
DefaultKeyAttrPairs ==
    [is_str |-> FALSE, pairs |-> <<<<"sub", "user_id">>, <<"exp", "expires_at">>>>]

\* __get_keys_from_access_token: the (attr, value) pairs read from the
\* claims of self.access_token, or the exception the decoding raises.
\* kap is the key_attr_pairs argument: the default pairs, or a str when a
\* URI key of that name was bound to the parameter; unpacking a character
\* of a str into (key, attr) raises ValueError.
GetKeysFromAccessToken(d, kap) ==
    LET tok == d["access_token"]
        segs == SplitDot(tok.v)
        decoded == urlsafe_b64decode(segs[2])
        parsed == json_loads(decoded.bytes)
        fail(e) == [exc |-> e, pairs |-> <<>>]
    IN  IF tok.t # "str" THEN fail("AttributeError")
        ELSE IF Len(segs) < 2 THEN fail("IndexError")
        ELSE IF decoded.exc # "" THEN fail(decoded.exc)
        ELSE IF parsed.exc # "" THEN fail(parsed.exc)
        ELSE IF kap.is_str THEN fail("ValueError")
        ELSE IF parsed.kind # "object" THEN fail("AttributeError")
        ELSE [exc |-> "",
              pairs |-> [i \in 1..Len(kap.pairs) |->
                            <<kap.pairs[i][2],
                              DictGet(parsed.obj, kap.pairs[i][1])>>]]

\* the dict of a list of (attr, value) pairs whose values are Python values
RECURSIVE AttrDict(_)
AttrDict(pairs) ==
    IF pairs = <<>> THEN <<>>
    ELSE LET rest == AttrDict(SubSeq(pairs, 1, Len(pairs) - 1))
             last == pairs[Len(pairs)]
         IN [k \in DOMAIN rest \cup {last[1]} |->
                IF k = last[1] THEN last[2] ELSE rest[k]]

\* Update with the two dict updates in the other order: the claims of the
\* token are set first and the URI pairs are merged over them
Update_UriWins(d, data) ==
    LET kwargs == [k \in DOMAIN data \ {"key_attr_pairs"} |-> data[k]]
        kap == IF "key_attr_pairs" \in DOMAIN data
               THEN [is_str |-> TRUE, pairs |-> <<>>]
               ELSE DefaultKeyAttrPairs
        predefined_keys == PredefinedKeys(d)
        merged == DictUpdate(d, kwargs, predefined_keys)
        additional_data == GetKeysFromAccessToken(merged, kap)
    IN  IF DOMAIN data \cap {"self", "extract_jwt"} # {}
        THEN [attrs |-> d, exc |-> "TypeError"]
        ELSE IF additional_data.exc # ""
        THEN [attrs |-> merged, exc |-> additional_data.exc]
        ELSE [attrs |-> DictUpdate(DictUpdate(merged,
                                              AttrDict(additional_data.pairs),
                                              predefined_keys),
                                   kwargs, predefined_keys),
              exc |-> ""]

\* __update(extract_jwt=True, **data): the attributes afterwards and the
\* exception raised, "" for none.  A key of data that names a parameter
\* cannot be passed twice (TypeError before the body runs); a key named
\* key_attr_pairs is bound to that parameter and is not part of kwargs.
Update(d, data) ==
    LET kwargs == [k \in DOMAIN data \ {"key_attr_pairs"} |-> data[k]]
        kap == IF "key_attr_pairs" \in DOMAIN data
               THEN [is_str |-> TRUE, pairs |-> <<>>]
               ELSE DefaultKeyAttrPairs
        predefined_keys == PredefinedKeys(d)
        merged == DictUpdate(d, kwargs, predefined_keys)
        additional_data == GetKeysFromAccessToken(merged, kap)
    IN  IF DOMAIN data \cap {"self", "extract_jwt"} # {}
        THEN [attrs |-> d, exc |-> "TypeError"]
        ELSE IF additional_data.exc # ""
        THEN [attrs |-> merged, exc |-> additional_data.exc]
        ELSE [attrs |-> DictUpdate(merged, AttrDict(additional_data.pairs),
                                   predefined_keys),
              exc |-> ""]

\* UriComponent that reads the fragment whatever the mode
UriComponent_AlwaysFragment(uri, mode) ==
    CASE mode \in {"fragment", "query"} -> [exc |-> "", qs |-> uri.fragment]
      [] mode = "netloc" -> [exc |-> "", qs |-> <<>>]
      [] OTHER -> [exc |-> "AttributeError", qs |-> <<>>]

\* getattr(urlsplit(uri), mode): the component of the URI the mode names.
\* The URIs of the model are http://localhost/redirect?query#fragment, whose
\* netloc holds no key=value pair; a mode that names no attribute of the
\* split URI raises AttributeError.
UriComponent(uri, mode) ==
    CASE mode = "fragment" -> [exc |-> "", qs |-> uri.fragment]
      [] mode = "query" -> [exc |-> "", qs |-> uri.query]
      [] mode = "netloc" -> [exc |-> "", qs |-> <<>>]
      [] OTHER -> [exc |-> "AttributeError", qs |-> <<>>]

\* __set_tokens_from_uri(data)
SetTokensFromUri(d, data) ==
    IF ~data.has_response THEN [attrs |-> d, exc |-> "KeyError"]
    ELSE LET result == UriComponent(data.uri, data.mode)
         IN  IF result.exc # "" THEN [attrs |-> d, exc |-> result.exc]
             ELSE Update(d, DictOf(parse_qsl(result.qs)))

\* ---------------------------------------------------------- provider inputs
\* access tokens the provider can put in a redirect URI
Tok1 == "h.eyJzdWIiOiJ1MSIsImV4cCI6MTAwfQ.s"
Tok2 == "h.eyJzdWIiOiJ1MiIsImV4cCI6MjAwfQ.s"
TokNoClaims == "h.eyJpc3MiOiJ4In0.s"
TokTwoSegments == "h.eyJzdWIiOiJ1MSIsImV4cCI6MTAwfQ"
TokOneSegment == "h"
TokBadBase64 == "h.A.s"
TokNotJson == "h.bm90anNvbg.s"
TokNotObject == "h.WzFd.s"
ValidTokens == {Tok1, Tok2}
Tokens ==
    ValidTokens \cup {TokNoClaims, TokTwoSegments, TokOneSegment,
                      TokBadBase64, TokNotJson, TokNotObject}

Stamps == 1..MaxStamp
\* the n-th value the provider uses for a field
Stamped(f, n) == f \o "-" \o ToString(n)

UriFields == <<"scope", "id_token", "token_type">>
\* keys other than the four token keys that a redirect URI can carry
ExtraKeys ==
    {"expires_in", "user_id", "expires_at", "entitlements_token", "accdict",
     "_cookie_jar", "_auth_ssl_ctx", "extract_jwt", "key_attr_pairs", "self"}

\* the query string access_token=tok&scope=..&id_token=..&token_type=..&extra
RECURSIVE FieldPairs(_, _, _)
FieldPairs(fields, present, n) ==
    IF fields = <<>> THEN <<>>
    ELSE (IF Head(fields) \in present
          THEN <<<<Head(fields), Stamped(Head(fields), n)>>>> ELSE <<>>)
         \o FieldPairs(Tail(fields), present, n)
QueryString(tok, present, n, extra) ==
    (IF tok = Absent THEN <<>> ELSE <<<<"access_token", tok>>>>)
    \o FieldPairs(UriFields, present, n)
    \o (IF extra = Absent THEN <<>> ELSE <<<<extra, Stamped(extra, n)>>>>)

\* the sets of fields a redirect URI can carry next to the access token
FieldSets ==
    {{}, {"token_type"}, {"scope", "id_token"}, {"scope", "id_token", "token_type"}}

\* query strings of the redirects: every token with all fields, one token
\* (or none) with every set of fields, one extra key next to a complete
\* set, and one string with a blank value and a repeated key
QueryStrings ==
    {QueryString(tok, {"scope", "id_token", "token_type"}, n, Absent) :
        tok \in Tokens \cup {Absent}, n \in Stamps}
    \cup {QueryString(tok, fs, n, Absent) :
            tok \in {Tok1, Absent}, fs \in FieldSets, n \in Stamps}
    \cup {QueryString(Tok1, {"scope", "id_token", "token_type"}, n, x) :
            n \in Stamps, x \in ExtraKeys}
    \cup {<<<<"access_token", Tok1>>, <<"scope", "">>,
            <<"token_type", "Basic">>, <<"token_type", Stamped("token_type", 1)>>>>}

\* a second query string, to tell the two components of one URI apart
Decoy == QueryString(Tok2, {"token_type"}, 1, Absent)
Redirects ==
    {[mode |-> "fragment", uri |-> [query |-> <<>>, fragment |-> qs]] :
        qs \in QueryStrings}
    \cup {[mode |-> m, uri |-> [query |-> q, fragment |-> f]] :
            m \in {"fragment", "query", "netloc", "form_post"},
            q \in {<<>>, Decoy},
            f \in {<<>>, QueryString(Tok1, {"scope", "id_token", "token_type"},
                                     1, Absent)}}

NoRedirect == [mode |-> Absent, uri |-> [query |-> <<>>, fragment |-> <<>>]]

\* the redirects the provider answers with in the protocol runs: complete
\* fragments around each kind of token, and fragments that leave fields out
RunRedirects ==
    {[mode |-> "fragment", uri |-> [query |-> <<>>, fragment |-> qs]] :
        qs \in {QueryString(tok, {"scope", "id_token", "token_type"}, 1, Absent) :
                    tok \in {Tok1, Tok2, TokNoClaims, TokBadBase64}}
               \cup {QueryString(Tok1, {}, 1, Absent),
                     QueryString(Absent, {"scope", "id_token"}, 1, Absent)}}

CookieChoices == 0..MaxCookies

\* a JSON body of the authorization endpoint
Body(ty, e) ==
    [type |-> ty, error |-> e, has_response |-> FALSE,
     mode |-> NoRedirect.mode, uri |-> NoRedirect.uri]
RedirectBody(r) ==
    [type |-> "response", error |-> Absent, has_response |-> TRUE,
     mode |-> r.mode, uri |-> r.uri]
NoBody == Body(Absent, Absent)

\* the bodies without a redirect descriptor
PlainBodies ==
    {Body("auth", Absent), Body("auth", "auth_failure"),
     Body("auth", "rate_limited"), Body("auth", "invalid_session_id"),
     Body("multifactor", Absent), Body("multifactor", "multifactor_attempt_failed"),
     Body(Absent, "multifactor_attempt_failed"), Body("captcha", Absent),
     Body("response", Absent), NoBody}

\* the bodies without a redirect descriptor that answer the initiation POST
InitBodies ==
    {Body("auth", Absent), Body("multifactor", Absent), Body("response", Absent),
     NoBody}

\* the responses of the authorization endpoint with a body of bodies: ok is
\* FALSE for a status that raise_for_status rejects; cookie is the
\* Set-Cookie of the response (0 for none)
ResponsesWith(bodies) ==
    {[ok |-> TRUE, cookie |-> c, data |-> d] :
        c \in CookieChoices,
        d \in bodies \cup {RedirectBody(r) : r \in RunRedirects}}
    \cup {[ok |-> FALSE, cookie |-> c, data |-> NoBody] : c \in CookieChoices}
InitResponses == ResponsesWith(InitBodies)
Responses == ResponsesWith(PlainBodies)

\* the responses of the entitlements endpoint
EntResponses ==
    {[ok |-> TRUE, cookie |-> c, entitlements_token |-> e] :
        c \in CookieChoices,
        e \in {Absent} \cup {Stamped("ent", n) : n \in Stamps}}
    \cup {[ok |-> FALSE, cookie |-> c, entitlements_token |-> Absent] :
            c \in CookieChoices}

Usernames == {"", "user"}
Passwords == {"", "pass"}
\* the one-time codes input() can return
Codes == {"123456"}

\* ------------------------------------------------------------------- state
VARIABLES
    attrs,      \* self.__dict__
    jar,        \* the cookies in the CookieJar object self._cookie_jar names
    pc,         \* where the running authorize() is suspended, or "idle"
    caller,     \* "authorize" or "reauthorize": the call in progress / last made
    args,       \* the arguments of the running authorize()
    sent,       \* the requests the current run has sent, in order
    status,     \* "ok" / "error": whether raise_for_status accepted the last
                \* response of the run; "none" before the first response
    data,       \* the local variable data: the last JSON body received
    outcome,    \* how the last authorize() run ended
    result,     \* what the last call gave its caller
    other       \* the locals (pc .. result) of a second task working on the
                \* same instance, while the event loop runs this one

vars == <<attrs, jar, pc, caller, args, sent, status, data, outcome, result,
          other>>

AuthUrl == "https://auth.riotgames.com/api/v1/authorization"
EntitlementsUrl == "https://entitlements.auth.riotgames.com/api/token/v1"

Request(step, method, url, body, cookies, authorization) ==
    [step |-> step, method |-> method, url |-> url, body |-> body,
     cookies |-> cookies, authorization |-> authorization]

\* the locals of a task that has not called authorize() yet
NoCall ==
    [pc |-> "idle", caller |-> "none",
     args |-> [username |-> "", password |-> "", use_query_response_mode |-> FALSE],
     sent |-> <<>>, status |-> "none", data |-> NoBody, outcome |-> "none",
     result |-> [status |-> "none", value |-> "none"]]

Init ==
    /\ attrs = InitAttrs
    /\ jar = {}
    /\ pc = NoCall.pc
    /\ caller = NoCall.caller
    /\ args = NoCall.args
    /\ sent = NoCall.sent
    /\ status = NoCall.status
    /\ data = NoCall.data
    /\ outcome = NoCall.outcome
    /\ result = NoCall.result
    /\ other = NoCall

\* cookies a response adds to the jar of the session
WithCookie(j, resp) == IF resp.cookie = 0 THEN j ELSE j \cup {resp.cookie}

\* ------------------------------------------------------- exception classes
\* the base class of each exception the run can raise
BaseClass(cls) ==
    CASE cls \in {"RiotAuthenticationError", "RiotMultifactorError",
                  "RiotRatelimitError", "RiotUnknownErrorTypeError",
                  "RiotUnknownResponseTypeError"} -> "RiotAuthError"
      [] cls = "RiotAuthError" -> "Exception"
      [] cls \in {"KeyError", "IndexError"} -> "LookupError"
      [] cls \in {"binascii.Error", "JSONDecodeError"} -> "ValueError"
      [] cls = "Exception" -> "BaseException"
      [] OTHER -> "Exception"

\* isinstance(exc, cls) for an exception of class exc
RECURSIVE IsInstance(_, _)
IsInstance(exc, cls) ==
    IF exc = cls THEN TRUE
    ELSE IF exc = "BaseException" THEN FALSE
    ELSE IsInstance(BaseClass(exc), cls)

\* ---------------------------------------------------------------- the calls
\* AuthorizeStart that clears the jar on every call
AuthorizeStart_AlwaysClear(c, username, password, use_query_response_mode) ==
    /\ pc = "idle"
    /\ jar' = {}
    /\ caller' = c
    /\ args' = [username |-> username, password |-> password,
                use_query_response_mode |-> use_query_response_mode]
    /\ sent' = <<Request("initiation", "POST", AuthUrl,
                         IF use_query_response_mode
                         THEN <<"response_mode", "query">> ELSE <<>>,
                         {}, Absent)>>
    /\ pc' = "await_init"
    /\ status' = "none"
    /\ data' = NoBody
    /\ outcome' = "running"
    /\ result' = [status |-> "none", value |-> "none"]
    /\ UNCHANGED <<attrs, other>>

\* AuthorizeStart with `if username or password`
AuthorizeStart_ClearOnEither(c, username, password, use_query_response_mode) ==
    LET j == IF Truthy(username) \/ Truthy(password) THEN {} ELSE jar
    IN  /\ pc = "idle"
        /\ jar' = j
        /\ caller' = c
        /\ args' = [username |-> username, password |-> password,
                    use_query_response_mode |-> use_query_response_mode]
        /\ sent' = <<Request("initiation", "POST", AuthUrl,
                             IF use_query_response_mode
                             THEN <<"response_mode", "query">> ELSE <<>>,
                             j, Absent)>>
        /\ pc' = "await_init"
        /\ status' = "none"
        /\ data' = NoBody
        /\ outcome' = "running"
        /\ result' = [status |-> "none", value |-> "none"]
        /\ UNCHANGED <<attrs, other>>

\* authorize(username, password, use_query_response_mode) up to its first
\* await: clear the jar for a credentialed call, send the initiation POST
AuthorizeStart(c, username, password, use_query_response_mode) ==
    LET j == IF Truthy(username) /\ Truthy(password) THEN {} ELSE jar
    IN  /\ pc = "idle"
        /\ jar' = j
        /\ caller' = c
        /\ args' = [username |-> username, password |-> password,
                    use_query_response_mode |-> use_query_response_mode]
        /\ sent' = <<Request("initiation", "POST", AuthUrl,
                             IF use_query_response_mode
                             THEN <<"response_mode", "query">> ELSE <<>>,
                             j, Absent)>>
        /\ pc' = "await_init"
        /\ status' = "none"
        /\ data' = NoBody
        /\ outcome' = "running"
        /\ result' = [status |-> "none", value |-> "none"]
        /\ UNCHANGED <<attrs, other>>

Authorize(username, password, use_query_response_mode) ==
    AuthorizeStart("authorize", username, password, use_query_response_mode)

\* reauthorize(): authorize("", "")
Reauthorize == AuthorizeStart("reauthorize", "", "", FALSE)

\* ReauthorizeResult with `except RiotAuthError`: every error of the
\* library becomes False
ReauthorizeResult_CatchBase(exc) ==
    IF exc = "" THEN [status |-> "returned", value |-> "True"]
    ELSE IF IsInstance(exc, "RiotAuthError")
         THEN [status |-> "returned", value |-> "False"]
         ELSE [status |-> "raised", value |-> exc]

\* ReauthorizeResult without the except clause
ReauthorizeResult_NoCatch(exc) ==
    IF exc = "" THEN [status |-> "returned", value |-> "True"]
    ELSE [status |-> "raised", value |-> exc]

\* what the caller of reauthorize() gets for an authorize() that raised exc
\* ("" for a normal return)
ReauthorizeResult(exc) ==
    IF exc = "" THEN [status |-> "returned", value |-> "True"]
    ELSE IF IsInstance(exc, "RiotAuthenticationError")
         THEN [status |-> "returned", value |-> "False"]
         ELSE [status |-> "raised", value |-> exc]

\* the run ends: exc is the exception leaving authorize(), "" for none
Finish(exc) ==
    /\ pc' = "idle"
    /\ outcome' = IF exc = "" THEN "Complete" ELSE exc
    /\ result' = IF caller = "reauthorize" THEN ReauthorizeResult(exc)
                 ELSE IF exc = "" THEN [status |-> "returned", value |-> "None"]
                 ELSE [status |-> "raised", value |-> exc]

\* lines 261-267: token extraction from data, then the entitlements POST
ExtractTokens(body, j) ==
    LET r == SetTokensFromUri(attrs, body)
    IN  /\ attrs' = r.attrs
        /\ IF r.exc # ""
           THEN /\ Finish(r.exc)
                /\ UNCHANGED sent
           ELSE /\ sent' = Append(sent,
                        Request("entitlements", "POST", EntitlementsUrl, <<>>, j,
                                <<Format(r.attrs["token_type"]), " ",
                                  Format(r.attrs["access_token"])>>))
                /\ pc' = "await_ent"
                /\ UNCHANGED <<outcome, result>>

\* RecvInit without the reauthentication shortcut: the credential PUT is
\* sent whatever the type of the initiation response
RecvInit_NoShortcut(resp) ==
    /\ pc = "await_init"
    /\ jar' = WithCookie(jar, resp)
    /\ status' = IF resp.ok THEN "ok" ELSE "error"
    /\ data' = IF resp.ok THEN resp.data ELSE data
    /\ UNCHANGED <<caller, args, other>>
    /\ IF ~resp.ok
       THEN Finish("ClientResponseError") /\ UNCHANGED <<attrs, sent>>
       ELSE IF resp.data.type = Absent
       THEN Finish("KeyError") /\ UNCHANGED <<attrs, sent>>
       ELSE /\ sent' = Append(sent,
                        Request("credentials", "PUT", AuthUrl,
                                <<args.username, args.password>>, jar', Absent))
            /\ pc' = "await_cred"
            /\ UNCHANGED <<attrs, outcome, result>>

\* the response to the initiation POST arrives
RecvInit(resp) ==
    /\ pc = "await_init"
    /\ jar' = WithCookie(jar, resp)
    /\ status' = IF resp.ok THEN "ok" ELSE "error"
    /\ data' = IF resp.ok THEN resp.data ELSE data
    /\ UNCHANGED <<caller, args, other>>
    /\ IF ~resp.ok
       THEN Finish("ClientResponseError") /\ UNCHANGED <<attrs, sent>>
       ELSE IF resp.data.type = Absent
       THEN Finish("KeyError") /\ UNCHANGED <<attrs, sent>>
       ELSE IF resp.data.type # "response"
       THEN /\ sent' = Append(sent,
                        Request("credentials", "PUT", AuthUrl,
                                <<args.username, args.password>>, jar', Absent))
            /\ pc' = "await_cred"
            /\ UNCHANGED <<attrs, outcome, result>>
       ELSE ExtractTokens(resp.data, jar')

\* RecvCred without the final else: a type other than "response", "auth"
\* and "multifactor" falls through to the token extraction
RecvCred_NoUnknownType(resp, code) ==
    /\ pc = "await_cred"
    /\ jar' = WithCookie(jar, resp)
    /\ status' = IF resp.ok THEN "ok" ELSE "error"
    /\ data' = IF resp.ok THEN resp.data ELSE data
    /\ UNCHANGED <<caller, args, other>>
    /\ LET resp_type == resp.data.type
           err == resp.data.error
       IN  IF ~resp.ok
           THEN Finish("ClientResponseError") /\ UNCHANGED <<attrs, sent>>
           ELSE IF resp_type = Absent
           THEN Finish("KeyError") /\ UNCHANGED <<attrs, sent>>
           ELSE IF resp_type = "auth"
           THEN /\ Finish(IF err = "auth_failure" THEN "RiotAuthenticationError"
                          ELSE IF err = "rate_limited" THEN "RiotRatelimitError"
                          ELSE "RiotUnknownErrorTypeError")
                /\ UNCHANGED <<attrs, sent>>
           ELSE IF resp_type = "multifactor"
           THEN /\ sent' = Append(sent,
                            Request("multifactor", "PUT", AuthUrl, <<code>>,
                                    jar', Absent))
                /\ pc' = "await_mfa"
                /\ UNCHANGED <<attrs, outcome, result>>
           ELSE ExtractTokens(resp.data, jar')

\* the response to the credential PUT arrives
RecvCred(resp, code) ==
    /\ pc = "await_cred"
    /\ jar' = WithCookie(jar, resp)
    /\ status' = IF resp.ok THEN "ok" ELSE "error"
    /\ data' = IF resp.ok THEN resp.data ELSE data
    /\ UNCHANGED <<caller, args, other>>
    /\ LET resp_type == resp.data.type
           err == resp.data.error
       IN  IF ~resp.ok
           THEN Finish("ClientResponseError") /\ UNCHANGED <<attrs, sent>>
           ELSE IF resp_type = Absent
           THEN Finish("KeyError") /\ UNCHANGED <<attrs, sent>>
           ELSE IF resp_type = "response"
           THEN ExtractTokens(resp.data, jar')
           ELSE IF resp_type = "auth"
           THEN /\ Finish(IF err = "auth_failure" THEN "RiotAuthenticationError"
                          ELSE IF err = "rate_limited" THEN "RiotRatelimitError"
                          ELSE "RiotUnknownErrorTypeError")
                /\ UNCHANGED <<attrs, sent>>
           ELSE IF resp_type = "multifactor"
           THEN /\ sent' = Append(sent,
                            Request("multifactor", "PUT", AuthUrl, <<code>>,
                                    jar', Absent))
                /\ pc' = "await_mfa"
                /\ UNCHANGED <<attrs, outcome, result>>
           ELSE /\ Finish("RiotUnknownResponseTypeError")
                /\ UNCHANGED <<attrs, sent>>

\* the exception raised by line 251: the name RiotMultifactorAttemptError is
\* neither imported nor defined, so evaluating it raises NameError
MultifactorAttemptFailure == "NameError"

\* the response to the multifactor PUT arrives
RecvMfa(resp) ==
    /\ pc = "await_mfa"
    /\ jar' = WithCookie(jar, resp)
    /\ status' = IF resp.ok THEN "ok" ELSE "error"
    /\ data' = IF resp.ok THEN resp.data ELSE data
    /\ UNCHANGED <<caller, args, other>>
    /\ IF ~resp.ok
       THEN Finish("ClientResponseError") /\ UNCHANGED <<attrs, sent>>
       ELSE IF resp.data.error = "multifactor_attempt_failed"
       THEN Finish(MultifactorAttemptFailure) /\ UNCHANGED <<attrs, sent>>
       ELSE ExtractTokens(resp.data, jar')

\* RecvEnt with a retry: an entitlements POST that raise_for_status rejects
\* is sent again
RecvEnt_Retry(resp) ==
    /\ pc = "await_ent"
    /\ jar' = WithCookie(jar, resp)
    /\ status' = IF resp.ok THEN "ok" ELSE "error"
    /\ UNCHANGED <<caller, args, data, other>>
    /\ IF ~resp.ok
       THEN /\ sent' = Append(sent, [sent[Len(sent)] EXCEPT !.cookies = jar'])
            /\ UNCHANGED <<attrs, pc, outcome, result>>
       ELSE IF resp.entitlements_token = Absent
       THEN Finish("KeyError") /\ UNCHANGED <<attrs, sent>>
       ELSE /\ attrs' = [attrs EXCEPT
                            !["entitlements_token"] = PyStr(resp.entitlements_token),
                            !["accdict"] = AccDict]
            /\ UNCHANGED sent
            /\ Finish("")

\* the response to the entitlements POST arrives
RecvEnt(resp) ==
    /\ pc = "await_ent"
    /\ jar' = WithCookie(jar, resp)
    /\ status' = IF resp.ok THEN "ok" ELSE "error"
    /\ UNCHANGED <<caller, args, sent, data, other>>
    /\ IF ~resp.ok
       THEN Finish("ClientResponseError") /\ UNCHANGED attrs
       ELSE IF resp.entitlements_token = Absent
       THEN Finish("KeyError") /\ UNCHANGED attrs
       ELSE /\ attrs' = [attrs EXCEPT
                            !["entitlements_token"] = PyStr(resp.entitlements_token),
                            !["accdict"] = AccDict]
            /\ Finish("")

Next ==
    \/ \E u \in Usernames, p \in Passwords, q \in BOOLEAN :
          /\ q => (Truthy(u) /\ Truthy(p))
          /\ Authorize(u, p, q)
    \/ Reauthorize
    \/ pc = "await_init" /\ \E resp \in InitResponses : RecvInit(resp)
    \/ pc = "await_cred" /\ \E resp \in Responses, code \in Codes : RecvCred(resp, code)
    \/ pc = "await_mfa" /\ \E resp \in Responses : RecvMfa(resp)
    \/ pc = "await_ent" /\ \E resp \in EntResponses : RecvEnt(resp)

Spec == Init /\ [][Next]_vars

\* The token merge on its own: cookie reauthorizations whose initiation
\* response is a redirect of Redirects (every kind of token, set of fields,
\* extra key and mode), followed by the entitlements response.
MergeNext ==
    \/ Reauthorize
    \/ /\ pc = "await_init"
       /\ \E r \in Redirects :
            RecvInit([ok |-> TRUE, cookie |-> 0, data |-> RedirectBody(r)])
    \/ /\ pc = "await_ent"
       /\ \E resp \in EntResponses : resp.cookie = 0 /\ RecvEnt(resp)

MergeSpec == Init /\ [][MergeNext]_vars

\* The event loop turns to the other task working on the instance: the
\* task that ran so far stays suspended at its await (or outside any call),
\* and the locals of the other one become the current ones.  The instance
\* (attrs) and the CookieJar object (jar) are shared by the two.
Switch ==
    /\ other' = [pc |-> pc, caller |-> caller, args |-> args, sent |-> sent,
                 status |-> status, data |-> data, outcome |-> outcome,
                 result |-> result]
    /\ pc' = other.pc
    /\ caller' = other.caller
    /\ args' = other.args
    /\ sent' = other.sent
    /\ status' = other.status
    /\ data' = other.data
    /\ outcome' = other.outcome
    /\ result' = other.result
    /\ UNCHANGED <<attrs, jar>>

\* the initiation responses of the runs of two tasks: a redirect with a
\* complete fragment, or a rejected status
ConcResponses ==
    {[ok |-> TRUE, cookie |-> c,
      data |-> RedirectBody([mode |-> "fragment",
                             uri |-> [query |-> <<>>,
                                      fragment |-> QueryString(tok,
                                          {"scope", "id_token", "token_type"},
                                          1, Absent)]])] :
        c \in CookieChoices, tok \in ValidTokens}
    \cup {[ok |-> FALSE, cookie |-> 0, data |-> NoBody]}

\* Two tasks calling authorize() / reauthorize() on one instance: nothing
\* in authorize() keeps a task from starting a run while the run of the
\* other task is suspended at a network round trip.
ConcNext ==
    \/ Switch
    \/ Authorize("user", "pass", FALSE)
    \/ Reauthorize
    \/ pc = "await_init" /\ \E resp \in ConcResponses : RecvInit(resp)
    \/ pc = "await_ent" /\ \E resp \in EntResponses : RecvEnt(resp)

ConcSpec == Init /\ [][ConcNext]_vars

\* The instance as __init__ builds it on each platform: _auth_ssl_ctx holds
\* the context create_riot_auth_ssl_ctx() returned (no instance exists where
\* it raises).
TlsInit ==
    /\ \E platform \in Platforms, loadable \in BOOLEAN :
          /\ create_riot_auth_ssl_ctx(platform, loadable).exc = ""
          /\ attrs = [InitAttrs EXCEPT !["_auth_ssl_ctx"] =
                        [t |-> "SSLContext",
                         v |-> create_riot_auth_ssl_ctx(platform, loadable).ctx]]
    /\ jar = {}
    /\ pc = NoCall.pc
    /\ caller = NoCall.caller
    /\ args = NoCall.args
    /\ sent = NoCall.sent
    /\ status = NoCall.status
    /\ data = NoCall.data
    /\ outcome = NoCall.outcome
    /\ result = NoCall.result
    /\ other = NoCall

\* redirects whose URI carries, next to the tokens, one more key, among
\* them the names of the private attributes
TlsRedirects ==
    {[mode |-> "fragment",
      uri |-> [query |-> <<>>,
               fragment |-> QueryString(Tok1, {"scope", "id_token", "token_type"},
                                        n, x)]] :
        n \in Stamps, x \in ExtraKeys \cup {Absent}}

\* the responses of the authorization endpoint in the runs of TlsSpec
TlsResponses ==
    {[ok |-> TRUE, cookie |-> 0, data |-> d] :
        d \in {Body("auth", Absent), Body("multifactor", Absent)}
               \cup {RedirectBody(r) : r \in TlsRedirects}}
    \cup {[ok |-> FALSE, cookie |-> 0, data |-> NoBody]}

\* runs on the instances of TlsInit
TlsNext ==
    \/ Authorize("user", "pass", FALSE)
    \/ Reauthorize
    \/ pc = "await_init" /\ \E resp \in TlsResponses : RecvInit(resp)
    \/ pc = "await_cred" /\ \E resp \in TlsResponses, code \in Codes :
                                RecvCred(resp, code)
    \/ pc = "await_mfa" /\ \E resp \in TlsResponses : RecvMfa(resp)
    \/ /\ pc = "await_ent"
       /\ \E resp \in EntResponses : resp.cookie = 0 /\ RecvEnt(resp)

TlsSpec == TlsInit /\ [][TlsNext]_vars

\* redirects with pairs in both components of the URI, under each mode
ModeRedirects ==
    {[mode |-> m, uri |-> [query |-> q, fragment |-> f]] :
        m \in {"fragment", "query"},
        q \in {<<>>, Decoy,
               QueryString(Tok2, {"scope", "id_token", "token_type"}, 1, Absent)},
        f \in {<<>>} \cup {QueryString(Tok1, {"scope", "id_token", "token_type"},
                                        n, Absent) : n \in Stamps}}

\* credentialed runs with and without use_query_response_mode, answered by
\* the redirects of ModeRedirects at the initiation or the credential step
ModeNext ==
    \/ \E q \in BOOLEAN : Authorize("user", "pass", q)
    \/ /\ pc = "await_init"
       /\ \E d \in {Body("auth", Absent)} \cup {RedirectBody(r) : r \in ModeRedirects} :
            RecvInit([ok |-> TRUE, cookie |-> 0, data |-> d])
    \/ /\ pc = "await_cred"
       /\ \E r \in ModeRedirects, code \in Codes :
            RecvCred([ok |-> TRUE, cookie |-> 0, data |-> RedirectBody(r)], code)
    \/ /\ pc = "await_ent"
       /\ \E resp \in EntResponses : resp.cookie = 0 /\ RecvEnt(resp)

ModeSpec == Init /\ [][ModeNext]_vars

TypeOK ==
    /\ pc \in {"idle", "await_init", "await_cred", "await_mfa", "await_ent"}
    /\ other.pc \in {"idle", "await_init", "await_cred", "await_mfa", "await_ent"}
    /\ DOMAIN attrs = DOMAIN InitAttrs

\* ------------------------------------------------------------- properties
Returned(v) == [status |-> "returned", value |-> v]
Raised(e) == [status |-> "raised", value |-> e]

\* the steps of a run that send a PUT
PutSteps(log) == {i \in DOMAIN log : log[i].method = "PUT"}

\* C1: when the initiation response has type "response", the step that
\* receives it sends no PUT and runs token extraction on that response
\* (either the entitlements POST follows it directly, or the extraction
\* raises and the run ends); once the entitlements POST is out nothing else
\* is sent, so the requests of the run are the initiation POST followed by
\* the entitlements POST.
C1_ReauthShortcut ==
    [][/\ (pc = "await_init" /\ status' = "ok" /\ data'.type = "response") =>
            LET r == SetTokensFromUri(attrs, data')
            IN  /\ attrs' = r.attrs
                /\ Len(sent) = 1 /\ sent[1].step = "initiation"
                /\ IF r.exc = ""
                   THEN /\ pc' = "await_ent"
                        /\ Len(sent') = 2 /\ sent'[1] = sent[1]
                        /\ sent'[2].step = "entitlements"
                        /\ sent'[2].method = "POST"
                   ELSE pc' = "idle" /\ outcome' = r.exc /\ sent' = sent
       /\ pc = "await_ent" => sent' = sent]_vars

\* C1 witness: a run completed with two requests, the initiation POST and
\* the entitlements POST
C1_Witness ==
    /\ pc = "idle" /\ outcome = "Complete"
    /\ Len(sent) = 2 /\ PutSteps(sent) = {}
    /\ sent[1].step = "initiation" /\ sent[2].step = "entitlements"

\* C2: a credential response {type: "auth", error: "auth_failure"} ends
\* the run with RiotAuthenticationError, no request is sent after it and
\* the session is left as it was; reauthorize() then returns False, while
\* authorize() raises.
C2_AuthFailure ==
    [][(/\ pc = "await_cred" /\ status' = "ok"
        /\ data'.type = "auth" /\ data'.error = "auth_failure") =>
            /\ pc' = "idle"
            /\ outcome' = "RiotAuthenticationError"
            /\ sent' = sent
            /\ attrs' = attrs
            /\ result' = IF caller = "reauthorize" THEN Returned("False")
                         ELSE Raised("RiotAuthenticationError")]_vars

\* C2 witness: a reauthorize() whose credential PUT was answered with
\* auth_failure has returned False
C2_Witness ==
    /\ pc = "idle" /\ caller = "reauthorize"
    /\ data.type = "auth" /\ data.error = "auth_failure"
    /\ Len(sent) = 2 /\ sent[2].step = "credentials"
    /\ outcome = "RiotAuthenticationError"
    /\ result = Returned("False")

\* the failures of a run other than RiotAuthenticationError
OtherFailures ==
    {"RiotRatelimitError", "RiotUnknownErrorTypeError",
     "RiotUnknownResponseTypeError", "NameError", "KeyError", "AttributeError",
     "IndexError", "binascii.Error", "JSONDecodeError", "TypeError",
     "ValueError", "ClientResponseError"}

\* C3: after reauthorize(), the result is True exactly when the run reached
\* Complete, False exactly when it raised RiotAuthenticationError, and any
\* other exception of the run is the exception reauthorize() raises.
C3_ReauthorizeResult ==
    (pc = "idle" /\ caller = "reauthorize") =>
        /\ outcome \in {"Complete", "RiotAuthenticationError"} \cup OtherFailures
        /\ (result = Returned("True")) <=> (outcome = "Complete")
        /\ (result = Returned("False")) <=> (outcome = "RiotAuthenticationError")
        /\ outcome \in OtherFailures => result = Raised(outcome)

\* C3 witness: a reauthorize() whose credential PUT was answered with
\* rate_limited has raised RiotRatelimitError
C3_Witness ==
    /\ pc = "idle" /\ caller = "reauthorize"
    /\ data.type = "auth" /\ data.error = "rate_limited"
    /\ outcome = "RiotRatelimitError"
    /\ result = Raised("RiotRatelimitError")

\* C4 as claimed: whenever the username/password pair of a run is not the
\* empty pair, the initiation POST is sent with an empty cookie store.
C4_ClearedUnlessEmptyPair ==
    (pc = "await_init" /\ ~(args.username = "" /\ args.password = "")) =>
        (sent[1].cookies = {} /\ jar = {})

\* C4 amended: the call clears the cookie store exactly when username and
\* password are both non-empty, and leaves it as it was otherwise (the empty
\* pair, or only one of the two given); the initiation POST, the first
\* request of the run, is sent with the store as the call left it.
C4_ClearedWhenBothGiven ==
    [][(pc = "idle" /\ pc' = "await_init") =>
            /\ jar' = IF Truthy(args'.username) /\ Truthy(args'.password)
                      THEN {} ELSE jar
            /\ Len(sent') = 1
            /\ sent'[1].step = "initiation"
            /\ sent'[1].cookies = jar']_vars

\* C4 witness: a call with a username and an empty password has sent its
\* initiation POST with the cookies of an earlier run
C4_Witness ==
    /\ pc = "await_init"
    /\ args.username = "user" /\ args.password = ""
    /\ sent[1].cookies # {}

\* C5: a multifactor response reporting multifactor_attempt_failed ends the
\* run with the multifactor error of the library, a RiotAuthError that is
\* not a RiotAuthenticationError, with no token extraction and no
\* entitlements request.
C5_MultifactorError ==
    [][(/\ pc = "await_mfa" /\ status' = "ok"
        /\ data'.error = "multifactor_attempt_failed") =>
            /\ pc' = "idle"
            /\ IsInstance(outcome', "RiotAuthError")
            /\ ~IsInstance(outcome', "RiotAuthenticationError")
            /\ attrs' = attrs
            /\ sent' = sent]_vars

\* the key/value pairs __set_tokens_from_uri reads from a body
MergedPairs(body) ==
    DictOf(parse_qsl(UriComponent(body.uri, body.mode).qs))

\* the sub and exp claims of the payload embedded in each access token that
\* decodes to a JSON object
EmbeddedClaims(tok) ==
    CASE tok = Tok1 -> [sub |-> PyStr("u1"), exp |-> PyInt(100)]
      [] tok = Tok2 -> [sub |-> PyStr("u2"), exp |-> PyInt(200)]
      [] tok = TokTwoSegments -> [sub |-> PyStr("u1"), exp |-> PyInt(100)]
      [] tok = TokNoClaims -> [sub |-> None, exp |-> None]

\* a redirect carrying the tokens: access_token, scope, id_token and
\* token_type in the component the mode names, the access token with the
\* sub and exp claims
CarriesTokens(body) ==
    /\ body.has_response
    /\ UriComponent(body.uri, body.mode).exc = ""
    /\ {"access_token", "scope", "id_token", "token_type"}
            \subseteq DOMAIN MergedPairs(body)
    /\ MergedPairs(body)["access_token"].v \in {Tok1, Tok2}

\* C6: a run that went through the multifactor PUT, got a redirect
\* carrying the tokens in answer to it and an entitlements token from the
\* entitlements POST is Complete with the seven session fields set.
C6_MultifactorComplete ==
    (/\ pc = "idle" /\ outcome = "Complete"
     /\ Len(sent) = 4 /\ sent[3].step = "multifactor"
     /\ CarriesTokens(data)) =>
        /\ \A f \in SessionFields : attrs[f] # None
        /\ attrs["expires_at"] # PyInt(0)
        /\ attrs["access_token"] = MergedPairs(data)["access_token"]
        /\ result = IF caller = "reauthorize" THEN Returned("True")
                    ELSE Returned("None")

\* C6 witness: such a run has completed
C6_Witness ==
    /\ pc = "idle" /\ outcome = "Complete"
    /\ Len(sent) = 4 /\ sent[2].step = "credentials"
    /\ sent[3].step = "multifactor" /\ sent[4].step = "entitlements"
    /\ CarriesTokens(data)
    /\ \A f \in SessionFields : attrs[f] # None

\* C7: whenever access_token is set, token_type is set, and no entitlements
\* request carries an Authorization header built from a set access_token
\* and an unset token_type.
C7_TokenTypeWithAccessToken ==
    /\ attrs["access_token"] # None => attrs["token_type"] # None
    /\ \A i \in DOMAIN sent :
            sent[i].step = "entitlements" =>
                ~(sent[i].authorization[3] # "None"
                    /\ sent[i].authorization[1] = "None")

\* the fields a redirect URI supplies under their own name
UriTokenFields == {"access_token", "scope", "id_token", "token_type"}

\* C8 as claimed: after the token-setting step, a field that the redirect
\* URI left out holds no value.
C8_FullOverwrite ==
    pc = "await_ent" =>
        \A f \in UriTokenFields :
            f \notin DOMAIN MergedPairs(data) => attrs[f] = None

\* C8 amended: the token-setting step merges.  access_token, scope,
\* id_token and token_type take the value the redirect URI gives under that
\* key and keep the value they had before the step when the URI leaves the
\* key out; user_id and expires_at are always replaced by the sub and exp
\* claims of the resulting access token (None for a missing claim); the
\* cookie store keeps the cookies it had.
C8_MergeKeepsOmitted ==
    [][(pc \in {"await_init", "await_cred", "await_mfa"} /\ pc' = "await_ent") =>
            LET kv == MergedPairs(data')
            IN  /\ \A f \in UriTokenFields :
                        attrs'[f] = IF f \in DOMAIN kv THEN kv[f] ELSE attrs[f]
                /\ attrs'["user_id"] =
                        EmbeddedClaims(attrs'["access_token"].v).sub
                /\ attrs'["expires_at"] =
                        EmbeddedClaims(attrs'["access_token"].v).exp
                /\ jar \subseteq jar']_vars

\* C8 witness: after a token-setting step whose URI had no scope, scope
\* holds a value, and the store holds a cookie
C8_Witness ==
    /\ pc = "await_ent"
    /\ "scope" \notin DOMAIN MergedPairs(data)
    /\ "access_token" \in DOMAIN MergedPairs(data)
    /\ attrs["scope"] # None
    /\ jar # {}

\* C9: the merge of the pairs of a redirect URI is the merge of its pairs
\* that name session fields: a key outside the seven session fields raises
\* nothing, adds no attribute and changes nothing.
C9_OnlySessionFields ==
    [][(/\ pc = "await_init" /\ status' = "ok"
        /\ data'.has_response
        /\ UriComponent(data'.uri, data'.mode).exc = "") =>
            LET kv == MergedPairs(data')
                session_pairs == [k \in DOMAIN kv \cap SessionFields |-> kv[k]]
                r == Update(attrs, session_pairs)
            IN  /\ DOMAIN attrs' = DOMAIN attrs
                /\ attrs' = r.attrs
                /\ (pc' = "idle") <=> (r.exc # "")]_vars

\* C10: when token extraction completes, user_id and expires_at are the sub
\* and exp claims of the payload of the access token (None for a missing
\* claim), whatever user_id or expires_at pairs the redirect URI carried.
C10_ClaimsOverrideUri ==
    [][(pc = "await_init" /\ pc' = "await_ent") =>
            LET tok == attrs'["access_token"].v
            IN  /\ tok \in {Tok1, Tok2, TokNoClaims, TokTwoSegments}
                /\ "access_token" \in DOMAIN MergedPairs(data') =>
                        MergedPairs(data')["access_token"].v = tok
                /\ attrs'["user_id"] = EmbeddedClaims(tok).sub
                /\ attrs'["expires_at"] = EmbeddedClaims(tok).exp]_vars

\* C10 witness: extraction has completed on a URI that carried a user_id
\* pair next to a token whose sub claim is u1, and user_id is u1
C10_Witness ==
    /\ pc = "await_ent"
    /\ "user_id" \in DOMAIN MergedPairs(data)
    /\ MergedPairs(data)["user_id"] # PyStr("u1")
    /\ MergedPairs(data)["access_token"] = PyStr(Tok1)
    /\ attrs["user_id"] = PyStr("u1")

\* the access tokens the claim calls malformed: fewer than three
\* dot-separated segments, a middle segment that is not base64, a payload
\* that is not JSON
MalformedTokens == {TokTwoSegments, TokOneSegment, TokBadBase64, TokNotJson}

\* C11: when the access token a redirect URI supplies to token extraction
\* is malformed (no access_token pair at all, or one of MalformedTokens),
\* the step ends the run with MalformedTokenError, which reaches the caller
\* of authorize(), and no entitlements request is sent.
C11_MalformedTokenError ==
    [][(/\ pc = "await_init" /\ status' = "ok"
        /\ data'.has_response /\ data'.mode \in {"fragment", "query"}
        /\ \/ "access_token" \notin DOMAIN MergedPairs(data')
           \/ MergedPairs(data')["access_token"].v \in MalformedTokens) =>
            /\ pc' = "idle"
            /\ outcome' = "MalformedTokenError"
            /\ result' = Raised("MalformedTokenError")
            /\ sent' = sent]_vars

\* C12: the credential step classifies its response exhaustively.  A body
\* of type "auth" whose error is neither "auth_failure" nor "rate_limited"
\* (an absent error included) raises RiotUnknownErrorTypeError; a body
\* whose type is none of "response", "auth" and "multifactor" raises
\* RiotUnknownResponseTypeError; either ends the run in that step, nothing
\* is sent after it and the session is untouched.
C12_ExhaustiveClassification ==
    [][(pc = "await_cred" /\ status' = "ok" /\ data'.type # Absent) =>
            LET exc == IF data'.type = "auth"
                            /\ data'.error \notin {"auth_failure", "rate_limited"}
                       THEN "RiotUnknownErrorTypeError"
                       ELSE IF data'.type \notin {"response", "auth", "multifactor"}
                       THEN "RiotUnknownResponseTypeError"
                       ELSE ""
            IN  exc # "" =>
                    /\ pc' = "idle"
                    /\ outcome' = exc
                    /\ result' = Raised(exc)
                    /\ sent' = sent
                    /\ attrs' = attrs]_vars

\* C12 witness: a credential response of type "auth" without an error has
\* ended the run with RiotUnknownErrorTypeError after two requests
C12_Witness ==
    /\ pc = "idle" /\ status = "ok"
    /\ Len(sent) = 2 /\ sent[2].step = "credentials"
    /\ data.type = "auth" /\ data.error = Absent
    /\ outcome = "RiotUnknownErrorTypeError"
    /\ result = Raised("RiotUnknownErrorTypeError")

\* the place of each request in the order of a run, and the await at which
\* the run is suspended after sending it
StepRank(step) ==
    CASE step = "initiation" -> 1
      [] step = "credentials" -> 2
      [] step = "multifactor" -> 3
      [] step = "entitlements" -> 4
AwaitOf(step) ==
    CASE step = "initiation" -> "await_init"
      [] step = "credentials" -> "await_cred"
      [] step = "multifactor" -> "await_mfa"
      [] step = "entitlements" -> "await_ent"

\* C13: the requests of one run are issued one after another in the order
\* initiation POST, credential PUT, multifactor PUT, entitlements POST.
\* After every step the log of the run starts with the initiation POST, is
\* strictly increasing in that order (so no request occurs twice), has a
\* multifactor PUT only after a credential PUT, and a suspended run waits
\* for the response to the last request of the log.  A step of a running
\* call sends at most one request, and only when it has received the
\* response it was waiting for and accepted its status; a step that ends
\* the run, and so every failure, sends nothing.
C13_Sequential ==
    [][/\ Len(sent') >= 1 /\ sent'[1].step = "initiation"
       /\ \A i, j \in DOMAIN sent' :
            i < j => StepRank(sent'[i].step) < StepRank(sent'[j].step)
       /\ \A i \in DOMAIN sent' :
            /\ sent'[i].method = IF sent'[i].step \in {"credentials", "multifactor"}
                                 THEN "PUT" ELSE "POST"
            /\ sent'[i].step = "multifactor" =>
                    (i > 1 /\ sent'[i - 1].step = "credentials")
       /\ pc' # "idle" => pc' = AwaitOf(sent'[Len(sent')].step)
       /\ pc = "idle" => Len(sent') = 1
       /\ pc # "idle" =>
            /\ \/ sent' = sent
               \/ /\ Len(sent') = Len(sent) + 1
                  /\ SubSeq(sent', 1, Len(sent)) = sent
                  /\ status' = "ok" /\ pc' # "idle"
            /\ (status' = "error" \/ pc' = "idle") => (sent' = sent /\ pc' = "idle")]_vars

\* C13 witness: a run has sent all four requests in order and its
\* entitlements POST has failed, with nothing sent after it
C13_Witness ==
    /\ pc = "idle" /\ status = "error"
    /\ Len(sent) = 4
    /\ sent[1].step = "initiation" /\ sent[2].step = "credentials"
    /\ sent[3].step = "multifactor" /\ sent[4].step = "entitlements"

\* C14: runs on one instance do not interleave.  While the run of the other
\* task is suspended at a network round trip, a step of the current task
\* neither clears nor uses the cookie store, sends no request and writes
\* no attribute of the instance.
C14_NoInterleaving ==
    [][(other.pc # "idle" /\ other' = other) =>
            (jar' = jar /\ attrs' = attrs /\ sent' = sent)]_vars

\* the 15 suites offered below TLS 1.3, the 3DES suite last
Pre13Suites ==
    <<"ECDHE-ECDSA-CHACHA20-POLY1305", "ECDHE-RSA-CHACHA20-POLY1305",
      "ECDHE-ECDSA-AES128-GCM-SHA256", "ECDHE-RSA-AES128-GCM-SHA256",
      "ECDHE-ECDSA-AES256-GCM-SHA384", "ECDHE-RSA-AES256-GCM-SHA384",
      "ECDHE-ECDSA-AES128-SHA", "ECDHE-RSA-AES128-SHA",
      "ECDHE-ECDSA-AES256-SHA", "ECDHE-RSA-AES256-SHA",
      "AES128-GCM-SHA256", "AES256-GCM-SHA384", "AES128-SHA", "AES256-SHA",
      "DES-CBC3-SHA">>

\* a context carries the profile: the three lists as colon-separated
\* strings in the stated order, ALPN, minimum version, encrypt-then-MAC off
HasTlsProfile(ctx) ==
    /\ ctx.ciphersuites =
            "TLS_CHACHA20_POLY1305_SHA256:TLS_AES_128_GCM_SHA256:"
            \o "TLS_AES_256_GCM_SHA384"
    /\ Len(Pre13Suites) = 15 /\ Pre13Suites[15] = "DES-CBC3-SHA"
    /\ ctx.cipher_list = Join(Pre13Suites)
    /\ ctx.sigalgs =
            "ecdsa_secp256r1_sha256:rsa_pss_rsae_sha256:rsa_pkcs1_sha256:"
            \o "ecdsa_secp384r1_sha384:rsa_pss_rsae_sha384:rsa_pkcs1_sha384:"
            \o "rsa_pss_rsae_sha512:rsa_pkcs1_sha512:rsa_pkcs1_sha1"
    /\ ctx.alpn_protocols = <<"http/1.1">>
    /\ ctx.minimum_version = "TLSv1"
    /\ "bit 19" \in ctx.options

\* C15: on each of win32, linux and darwin the constructor, when it finds
\* the TLS library of the branch, builds a context with the TLS profile (the 3 TLS 1.3 suites, the 15 earlier suites ending
\* with the 3DES one, the 9 signature algorithms ending with rsa_pkcs1_sha1,
\* ALPN http/1.1 only, minimum version TLS 1.0, encrypt-then-MAC disabled),
\* and the context of the instance, from which every run builds the
\* connector of its requests, carries that profile in every state, whatever
\* keys the redirect URIs of earlier runs had.
C15_TlsProfile ==
    /\ \A platform \in {"win32", "linux", "darwin"} :
            /\ create_riot_auth_ssl_ctx(platform, TRUE).exc = ""
            /\ HasTlsProfile(create_riot_auth_ssl_ctx(platform, TRUE).ctx)
    /\ attrs["_auth_ssl_ctx"].t = "SSLContext"
    /\ HasTlsProfile(attrs["_auth_ssl_ctx"].v)

\* C15 witness: on the win32 branch, a run has sent its entitlements POST
\* after a redirect whose URI had a key named _auth_ssl_ctx
C15_Witness ==
    /\ pc = "await_ent"
    /\ "_auth_ssl_ctx" \in DOMAIN MergedPairs(data)
    /\ attrs["_auth_ssl_ctx"].v.libssl = "libssl-1_1.dll"
    /\ HasTlsProfile(attrs["_auth_ssl_ctx"].v)

\* C16: the cookie store outlives the runs.  No step of a running call
\* takes a cookie out of the store, so what the provider set during a run
\* is still there when the run has ended, however it ended; reauthorize()
\* leaves the store as it found it and sends its initiation POST with it,
\* so no sequence of reauthorize() calls ever clears it; every request of a
\* run is sent with the store as it is at that moment, which holds the
\* cookies every earlier request of the run was sent with.
C16_CookiesPersist ==
    [][/\ pc # "idle" => jar \subseteq jar'
       /\ (pc = "idle" /\ caller' = "reauthorize") =>
            /\ jar' = jar
            /\ Len(sent') = 1 /\ sent'[1].cookies = jar
       /\ Len(sent') > Len(sent) => sent'[Len(sent')].cookies = jar'
       /\ \A i, j \in DOMAIN sent' :
            i < j => sent'[i].cookies \subseteq sent'[j].cookies
       /\ \A i \in DOMAIN sent' : sent'[i].cookies \subseteq jar']_vars

\* C16 witness: a reauthorize() has sent its initiation POST with a cookie
\* that an earlier, failed run left in the store
C16_Witness ==
    /\ pc = "await_init" /\ caller = "reauthorize"
    /\ attrs["access_token"] = None
    /\ jar # {} /\ sent[1].cookies = jar

\* C17: use_query_response_mode decides one thing, whether the body of the
\* initiation POST has response_mode "query"; no later request has it.
\* Token extraction merges the pairs of the URI component that the mode of
\* the redirect descriptor names, the query string for "query" and the
\* fragment for "fragment", whatever the flag of the call was.
C17_ModeFromDescriptor ==
    [][/\ \A i \in DOMAIN sent' :
            (sent'[i].body = <<"response_mode", "query">>) <=>
                (i = 1 /\ args'.use_query_response_mode)
       /\ (/\ pc \in {"await_init", "await_cred"} /\ status' = "ok"
           /\ data'.has_response /\ data'.type = "response"
           /\ data'.mode \in {"fragment", "query"}) =>
            LET component == IF data'.mode = "query" THEN data'.uri.query
                             ELSE data'.uri.fragment
                r == Update(attrs, DictOf(parse_qsl(component)))
            IN  /\ attrs' = r.attrs
                /\ (pc' = "await_ent") <=> (r.exc = "")]_vars

\* C17 witness: a call with the flag set got a redirect of mode "fragment"
\* whose query string names another token, and holds the token of the
\* fragment
C17_Witness ==
    /\ pc = "await_ent" /\ args.use_query_response_mode
    /\ sent[1].body = <<"response_mode", "query">>
    /\ data.mode = "fragment"
    /\ data.uri.query = Decoy
    /\ attrs["access_token"] = PyStr(Tok1)
    /\ attrs["user_id"] = PyStr("u1")

\* C18: a call that ends in a failure leaves the seven session fields as
\* they were before the call.  Stated on the steps of a run: the steps
\* before the token extraction (initiation, credential and multifactor
\* responses that send the next PUT) change no session field, and the step
\* that ends the call with an exception, at the credential submission, the
\* multifactor submission, the token extraction or the entitlements
\* request, changes none either.
C18_FailureLeavesFields ==
    [][/\ (pc # "idle" /\ pc' \in {"await_cred", "await_mfa"}) =>
            \A f \in SessionFields : attrs'[f] = attrs[f]
       /\ (pc # "idle" /\ pc' = "idle" /\ outcome' # "Complete") =>
            \A f \in SessionFields : attrs'[f] = attrs[f]]_vars

\* the fields the provenance of the entitlements token is about
EntitlementFields == {"entitlements_token", "token_type", "access_token"}

\* C19: between calls, a stored entitlements token is the one returned by
\* an entitlements request whose Authorization header was built from the
\* stored token_type and access_token.  Stated on the steps of a run: the
\* step that completes a run stores the token returned to the entitlements
\* POST of that run, whose header carries the token_type and access_token
\* the session then holds; the steps before the token extraction change
\* none of the three fields; and a step that ends a call with an exception
\* while an entitlements token is stored has changed none of them.
C19_EntitlementsForStoredToken ==
    [][/\ (pc # "idle" /\ pc' = "idle" /\ outcome' = "Complete") =>
            /\ attrs'["entitlements_token"] # None
            /\ sent[Len(sent)].step = "entitlements"
            /\ sent[Len(sent)].authorization =
                    <<Format(attrs'["token_type"]), " ",
                      Format(attrs'["access_token"])>>
       /\ (pc # "idle" /\ pc' \in {"await_cred", "await_mfa"}) =>
            \A f \in EntitlementFields : attrs'[f] = attrs[f]
       /\ (/\ pc # "idle" /\ pc' = "idle" /\ outcome' # "Complete"
           /\ attrs'["entitlements_token"] # None) =>
            \A f \in EntitlementFields : attrs'[f] = attrs[f]]_vars

\* the failure states with an exception type of the library
TypedFailures ==
    {"RiotAuthError", "RiotAuthenticationError", "RiotMultifactorError",
     "RiotRatelimitError", "RiotUnknownErrorTypeError",
     "RiotUnknownResponseTypeError"}

\* C20: token extraction is entered only with a response of type
\* "response".  The step that sends the entitlements POST has received a
\* body of that type; and a multifactor response of another type ("auth",
\* "multifactor", ...) that is not the error "multifactor_attempt_failed"
\* ends the run in that step in a typed failure, with no field written and
\* nothing sent.
C20_ExtractionOnlyOnResponse ==
    [][/\ (pc # "await_ent" /\ pc' = "await_ent") => data'.type = "response"
       /\ (/\ pc = "await_mfa" /\ status' = "ok"
           /\ data'.type \notin {"response", Absent}
           /\ data'.error # "multifactor_attempt_failed") =>
            /\ pc' = "idle"
            /\ outcome' \in TypedFailures
            /\ attrs' = attrs
            /\ sent' = sent]_vars
====
